---- MODULE Spec2Model ----
(***************************************************************************)
(* Model of prover_cli's status dispatcher,                                *)
(* prover/prover_cli/src/commands/status/mod.rs:                           *)
(*                                                                         *)
(*   pub enum StatusCommand { Batch(batch::Args), L1 }                     *)
(*   pub(crate) async fn run(self) -> Result<(), CLIErrors> {              *)
(*       match self {                                                      *)
(*           StatusCommand::Batch(args) => Ok(batch::run(args).await?),    *)
(*           StatusCommand::L1 => l1::run().await,                         *)
(*       }                                                                 *)
(*   }                                                                     *)
(*                                                                         *)
(* A task is one call of run on one constructed StatusCommand.  The two    *)
(* collaborators, batch::run and l1::run, are the environment: the model   *)
(* records every invocation they receive and lets them return any value    *)
(* of their result type.  The runtime may drop a suspended future          *)
(* (external cancellation).                                                *)
(***************************************************************************)
EXTENDS Naturals, Sequences, FiniteSets, TLC

\* ---------------------------------------------------------------- bounds
\* Number of independently constructed commands that are run.
NumTasks == 2
\* Number of distinct batch::Args values (opaque to the dispatcher).
NumArgs == 2
\* Number of failure kinds of batch::run's own error type.
NumBatchErrs == 2
\* Number of failure kinds l1::run reports directly as CLIErrors.
NumCliErrs == 2

Tasks == 1..NumTasks

\* ---------------------------------------------------------------- data
\* batch::Args: the payload of StatusCommand::Batch.
BatchArgs == 1..NumArgs

\* enum StatusCommand { Batch(batch::Args), L1 }
StatusCommand ==
    {[variant |-> "Batch", args |-> a] : a \in BatchArgs} \cup {[variant |-> "L1"]}

\* The error type batch::run returns (E_batch), distinct from CLIErrors.
BatchError == {[ty |-> "BatchError", kind |-> k] : k \in 1..NumBatchErrs}

\* crate::errors::CLIErrors: the kinds the command layer reports itself, and one
\* case per kind of batch::run's error type.
CLIErrors ==
    {[ty |-> "CLIErrors", variant |-> "Native", kind |-> k] : k \in 1..NumCliErrs}
    \cup {[ty |-> "CLIErrors", variant |-> "Batch", kind |-> k] : k \in 1..NumBatchErrs}

\* impl From<E_batch> for CLIErrors, used by the ? operator.
From(e) == [ty |-> "CLIErrors", variant |-> "Batch", kind |-> e.kind]

\* Result<(), E>
Ok == [tag |-> "Ok"]
Err(e) == [tag |-> "Err", err |-> e]

\* What batch::run(args).await can evaluate to.
BatchResults == {Ok} \cup {Err(e) : e \in BatchError}
\* What l1::run().await can evaluate to.
L1Results == {Ok} \cup {Err(e) : e \in CLIErrors}

\* The collaborator's future has not resolved / run has not returned.
Pending == [tag |-> "Pending"]

\* ---------------------------------------------------------------- state
VARIABLES
    cmd,        \* cmd[t]: the StatusCommand task t was constructed with
    owned,      \* owned[t]: the caller still owns the value (run not yet called)
    pc,         \* pc[t]: "Unstarted", "Running", "Completed" or "Cancelled"
    batchCalls, \* batchCalls[t]: the arguments of each batch::run call made by task t
    l1Calls,    \* l1Calls[t]: the number of l1::run calls made by task t
    ret,        \* ret[t]: what task t's collaborator returned
    result      \* result[t]: what run returned to task t's caller

vars == <<cmd, owned, pc, batchCalls, l1Calls, ret, result>>

Init ==
    /\ cmd \in [Tasks -> StatusCommand]
    /\ owned = [t \in Tasks |-> TRUE]
    /\ pc = [t \in Tasks |-> "Unstarted"]
    /\ batchCalls = [t \in Tasks |-> <<>>]
    /\ l1Calls = [t \in Tasks |-> 0]
    /\ ret = [t \in Tasks |-> Pending]
    /\ result = [t \in Tasks |-> Pending]

\* ---------------------------------------------------------------- run
\* Variant of CanStart: run(&self) with a retry, a command whose run failed can
\* be run again.
CanStartOrRetry(t) == owned[t] \/ (pc[t] = "Completed" /\ result[t].tag = "Err")

\* run(self): the command is taken by value, so it can be run only while the
\* caller still owns it.
CanStart(t) == owned[t]

\* Variant of BatchArm: batch::run(Args::default()), the first Args value is
\* passed whatever the command carries.
BatchArmDefaultArgs(t) ==
    /\ cmd[t].variant = "Batch"
    /\ batchCalls' = [batchCalls EXCEPT ![t] = Append(@, 1)]
    /\ UNCHANGED l1Calls

\* Variant of BatchArm: the batch arm goes on to query L1 as well.
BatchArmAlsoL1(t) ==
    /\ cmd[t].variant = "Batch"
    /\ batchCalls' = [batchCalls EXCEPT ![t] = Append(@, cmd[t].args)]
    /\ l1Calls' = [l1Calls EXCEPT ![t] = @ + 1]

\* StatusCommand::Batch(args) => batch::run(args).await : the call is issued
\* with the args of the matched value and the task suspends on it.
BatchArm(t) ==
    /\ cmd[t].variant = "Batch"
    /\ batchCalls' = [batchCalls EXCEPT ![t] = Append(@, cmd[t].args)]
    /\ UNCHANGED l1Calls

\* Variant of L1Arm: l1::run is awaited twice.
L1ArmTwice(t) ==
    /\ cmd[t].variant = "L1"
    /\ l1Calls' = [l1Calls EXCEPT ![t] = @ + 2]
    /\ UNCHANGED batchCalls

\* StatusCommand::L1 => l1::run().await
L1Arm(t) ==
    /\ cmd[t].variant = "L1"
    /\ l1Calls' = [l1Calls EXCEPT ![t] = @ + 1]
    /\ UNCHANGED batchCalls

\* The call of run up to its suspension point: match self { ... }.
Start(t) ==
    /\ CanStart(t)
    /\ owned' = [owned EXCEPT ![t] = FALSE]
    /\ pc' = [pc EXCEPT ![t] = "Running"]
    /\ (BatchArm(t) \/ L1Arm(t))
    /\ UNCHANGED <<cmd, ret, result>>

\* Variant of BatchArmResult: .map_err(|_| CLIErrors::...), every batch failure
\* becomes the same CLIErrors value.
BatchArmResultCatchAll(r) ==
    IF r.tag = "Err" THEN Err([ty |-> "CLIErrors", variant |-> "Native", kind |-> 1]) ELSE Ok

\* Variant of BatchArmResult: the error of batch::run is dropped (.ok()).
BatchArmResultSwallow(r) == Ok

\* Ok(batch::run(args).await?) : an Err(e) returns Err(From::from(e)) at once,
\* an Ok(()) is unwrapped and wrapped again.
BatchArmResult(r) == IF r.tag = "Err" THEN Err(From(r.err)) ELSE Ok

\* Variant of L1ArmResult: the error is wrapped again into one fixed kind.
L1ArmResultRewrapped(r) ==
    IF r.tag = "Err" THEN Err([ty |-> "CLIErrors", variant |-> "Native", kind |-> 1]) ELSE r

\* Variant of L1ArmResult: a process-wide "last error" is kept, and a run
\* reports the error an earlier run ended with.
L1ArmResultSticky(r) ==
    IF \E u \in Tasks : result[u].tag = "Err"
    THEN result[CHOOSE u \in Tasks : result[u].tag = "Err"]
    ELSE r

\* l1::run().await : the value of the match arm is the collaborator's result.
L1ArmResult(r) == r

\* batch::run's future resolves with r and run returns.
BatchReturn(t, r) ==
    /\ pc[t] = "Running"
    /\ cmd[t].variant = "Batch"
    /\ ret' = [ret EXCEPT ![t] = r]
    /\ result' = [result EXCEPT ![t] = BatchArmResult(r)]
    /\ pc' = [pc EXCEPT ![t] = "Completed"]
    /\ UNCHANGED <<cmd, owned, batchCalls, l1Calls>>

\* Variant of L1Return: after l1::run has resolved the dispatcher waits on
\* something that never resolves.
L1ReturnThenWait(t, r) ==
    /\ pc[t] = "Running"
    /\ cmd[t].variant = "L1"
    /\ ret[t] = Pending
    /\ ret' = [ret EXCEPT ![t] = r]
    /\ UNCHANGED <<cmd, owned, pc, batchCalls, l1Calls, result>>

\* l1::run's future resolves with r and run returns.
L1Return(t, r) ==
    /\ pc[t] = "Running"
    /\ cmd[t].variant = "L1"
    /\ ret' = [ret EXCEPT ![t] = r]
    /\ result' = [result EXCEPT ![t] = L1ArmResult(r)]
    /\ pc' = [pc EXCEPT ![t] = "Completed"]
    /\ UNCHANGED <<cmd, owned, batchCalls, l1Calls>>

\* Variant of Cancel: the cancellation is swallowed and run reports success.
CancelSwallowed(t) ==
    /\ pc[t] = "Running"
    /\ pc' = [pc EXCEPT ![t] = "Cancelled"]
    /\ result' = [result EXCEPT ![t] = Ok]
    /\ UNCHANGED <<cmd, owned, batchCalls, l1Calls, ret>>

\* The runtime drops the future of run while it is suspended in its .await:
\* the collaborator's future is dropped with it and run never returns.
Cancel(t) ==
    /\ pc[t] = "Running"
    /\ pc' = [pc EXCEPT ![t] = "Cancelled"]
    /\ UNCHANGED <<cmd, owned, batchCalls, l1Calls, ret, result>>

Next ==
    \E t \in Tasks :
        \/ Start(t)
        \/ \E r \in BatchResults : BatchReturn(t, r)
        \/ \E r \in L1Results : L1Return(t, r)
        \/ Cancel(t)

Spec == Init /\ [][Next]_vars

\* Runs in which no future is dropped, every started task is polled and every
\* collaborator call eventually returns.
NextLive ==
    \E t \in Tasks :
        \/ Start(t)
        \/ \E r \in BatchResults : BatchReturn(t, r)
        \/ \E r \in L1Results : L1Return(t, r)

LiveSpec ==
    /\ Init
    /\ [][NextLive]_vars
    /\ \A t \in Tasks :
        /\ WF_vars(Start(t))
        /\ WF_vars(\E r \in BatchResults : BatchReturn(t, r))
        /\ WF_vars(\E r \in L1Results : L1Return(t, r))

TypeOK ==
    /\ cmd \in [Tasks -> StatusCommand]
    /\ owned \in [Tasks -> BOOLEAN]
    /\ pc \in [Tasks -> {"Unstarted", "Running", "Completed", "Cancelled"}]
    /\ \A t \in Tasks : batchCalls[t] \in Seq(BatchArgs) /\ l1Calls[t] \in Nat
    /\ \A t \in Tasks : ret[t] \in {Pending} \cup BatchResults \cup L1Results
    /\ \A t \in Tasks : result[t] \in {Pending, Ok} \cup {Err(e) : e \in CLIErrors}

\* ---------------------------------------------------------------- claims
Calls(t) == Len(batchCalls[t]) + l1Calls[t]

\* C1: a run of StatusCommand::Batch(args) has invoked batch::run exactly once,
\* with the args the command was constructed with, from the moment it has
\* started (and not at all before).
C1_BatchForwardedOnce ==
    \A t \in Tasks :
        cmd[t].variant = "Batch" =>
            batchCalls[t] = IF pc[t] = "Unstarted" THEN <<>> ELSE <<cmd[t].args>>

C1_Witness ==
    \E t \in Tasks :
        /\ cmd[t] = [variant |-> "Batch", args |-> NumArgs]
        /\ pc[t] = "Completed"
        /\ batchCalls[t] = <<NumArgs>>

\* C2: a run of StatusCommand::L1 has invoked l1::run exactly once from the
\* moment it has started, and never invokes batch::run.
C2_L1InvokedOnce ==
    \A t \in Tasks :
        cmd[t].variant = "L1" =>
            /\ l1Calls[t] = IF pc[t] = "Unstarted" THEN 0 ELSE 1
            /\ batchCalls[t] = <<>>

C2_Witness ==
    \E t \in Tasks :
        cmd[t].variant = "L1" /\ pc[t] = "Completed" /\ l1Calls[t] = 1

\* C3: one call of run makes at most one collaborator invocation in all, so
\* it never invokes both batch::run and l1::run.
C3_AtMostOneCollaborator ==
    \A t \in Tasks :
        /\ Calls(t) <= 1
        /\ ~(batchCalls[t] # <<>> /\ l1Calls[t] > 0)

C3_Witness ==
    \E t, u \in Tasks :
        /\ cmd[t].variant = "Batch" /\ pc[t] = "Completed" /\ ret[t].tag = "Err"
        /\ cmd[u].variant = "L1" /\ pc[u] = "Completed" /\ ret[u].tag = "Ok"
        /\ Calls(t) = 1 /\ Calls(u) = 1

\* C4: when batch::run returns an error, run returns Err with a CLIErrors
\* value, and two runs whose batch::run failed in different ways return
\* different CLIErrors values (the conversion is total and loses nothing).
C4_BatchErrorLossless ==
    \A t \in Tasks :
        (cmd[t].variant = "Batch" /\ ret[t].tag = "Err") =>
            /\ result[t].tag = "Err"
            /\ result[t].err \in CLIErrors
            /\ \A u \in Tasks :
                (cmd[u].variant = "Batch" /\ ret[u].tag = "Err" /\ ret[u] # ret[t])
                    => result[u] # result[t]

C4_Witness ==
    \E t, u \in Tasks :
        /\ cmd[t].variant = "Batch" /\ cmd[u].variant = "Batch"
        /\ ret[t].tag = "Err" /\ ret[u].tag = "Err"
        /\ ret[t] # ret[u]
        /\ result[t].tag = "Err" /\ result[u].tag = "Err"

\* C5: a completed run of StatusCommand::L1 returned exactly the value
\* l1::run returned, Ok(()) or the same CLIErrors value.
C5_L1ResultUnchanged ==
    \A t \in Tasks :
        (cmd[t].variant = "L1" /\ pc[t] = "Completed") =>
            /\ ret[t] \in L1Results
            /\ result[t] = ret[t]

C5_Witness ==
    \E t, u \in Tasks :
        /\ cmd[t].variant = "L1" /\ pc[t] = "Completed" /\ result[t] = Ok
        /\ cmd[u].variant = "L1" /\ pc[u] = "Completed"
        /\ result[u] = Err([ty |-> "CLIErrors", variant |-> "Native", kind |-> NumCliErrs])

\* C6: for both variants run returns Err exactly when its collaborator
\* returned Err and Ok(()) exactly when it returned Ok(()); a run that has not
\* completed has returned nothing.
C6_OutcomePassThrough ==
    \A t \in Tasks :
        IF pc[t] = "Completed"
        THEN /\ ret[t].tag \in {"Ok", "Err"}
             /\ result[t].tag = ret[t].tag
             /\ result[t].tag = "Ok" => result[t] = Ok
        ELSE result[t] = Pending

C6_Witness ==
    \E t, u \in Tasks :
        /\ cmd[t].variant = "Batch" /\ pc[t] = "Completed"
        /\ ret[t].tag = "Err" /\ result[t].tag = "Err"
        /\ cmd[u].variant = "L1" /\ pc[u] = "Completed"
        /\ ret[u].tag = "Ok" /\ result[u] = Ok

\* C7: a call of run moves only Unstarted -> Running -> Completed, ending with
\* Ok or Err; Completed is entered from Running only and is terminal (state and
\* result stay, no collaborator is called again), and a command that has been
\* consumed is never owned again.  The one other step is the runtime dropping
\* the suspended future, which leaves the call unresolved for good.
C7_Lifecycle ==
    [][\A t \in Tasks :
        /\ pc'[t] # pc[t] =>
               <<pc[t], pc'[t]>> \in {<<"Unstarted", "Running">>,
                                      <<"Running", "Completed">>,
                                      <<"Running", "Cancelled">>}
        /\ pc'[t] = "Completed" => result'[t].tag \in {"Ok", "Err"}
        /\ pc[t] = "Completed" =>
               /\ pc'[t] = "Completed"
               /\ result'[t] = result[t]
        /\ pc[t] # "Unstarted" =>
               /\ batchCalls'[t] = batchCalls[t]
               /\ l1Calls'[t] = l1Calls[t]
        /\ ~owned[t] => ~owned'[t]
        /\ (pc'[t] = "Unstarted") = owned'[t]
      ]_vars

C7_Witness ==
    \E t, u \in Tasks :
        /\ pc[t] = "Completed" /\ result[t].tag = "Err" /\ ~owned[t]
        /\ pc[u] = "Completed" /\ result[u] = Ok /\ ~owned[u]

\* C8: once the future of a run has been dropped at its suspension point, the
\* run never returns Ok(()) and never completes; and a run becomes cancelled
\* only from its suspension point, with nothing returned by the dispatcher.
C8_CancelNeverOk ==
    /\ \A t \in Tasks :
        [](pc[t] = "Cancelled" => [](result[t].tag # "Ok" /\ pc[t] # "Completed"))
    /\ [][\A t \in Tasks :
            (pc[t] # "Cancelled" /\ pc'[t] = "Cancelled") =>
                (pc[t] = "Running" /\ result'[t] = Pending)]_vars

C8_Witness ==
    \E t, u \in Tasks :
        /\ cmd[t].variant = "L1" /\ pc[t] = "Cancelled" /\ l1Calls[t] = 1
        /\ cmd[u].variant = "Batch" /\ pc[u] = "Cancelled"

\* The value run returns for command c when its collaborator returned r; it
\* reads the state of no task.
Outcome(c, r) ==
    CASE c.variant = "L1" -> r
      [] c.variant = "Batch" /\ r.tag = "Ok" -> Ok
      [] c.variant = "Batch" /\ r.tag = "Err" -> Err(From(r.err))

\* C9: whatever the other runs are and however they ended, the result of a
\* run is a function of its own command and of what its own collaborator call
\* returned: two runs of equal commands whose collaborators returned the same
\* end alike, and a run that has not completed is untouched by the others.
C9_IndependentOutcomes ==
    \A t \in Tasks :
        /\ pc[t] = "Completed" => result[t] = Outcome(cmd[t], ret[t])
        /\ pc[t] # "Completed" => result[t] = Pending
        /\ pc[t] \in {"Unstarted", "Running"} => ret[t] = Pending
        /\ \A u \in Tasks :
            (pc[t] = "Completed" /\ pc[u] = "Completed"
                /\ cmd[t] = cmd[u] /\ ret[t] = ret[u]) => result[t] = result[u]

C9_Witness ==
    \E t, u \in Tasks :
        /\ t # u
        /\ cmd[t].variant = "L1" /\ cmd[u].variant = "L1"
        /\ pc[t] = "Completed" /\ pc[u] = "Completed"
        /\ result[t].tag = "Err" /\ result[u] = Ok

\* C10: when no future is dropped, tasks are scheduled fairly and collaborator
\* calls return, every run eventually completes with Ok or Err, having made
\* exactly one collaborator call (its one suspension point).
C10_EventuallyCompleted ==
    \A t \in Tasks :
        <>(pc[t] = "Completed" /\ result[t].tag \in {"Ok", "Err"} /\ Calls(t) = 1)

C10_Witness ==
    \A t \in Tasks : pc[t] = "Completed" /\ Calls(t) = 1
====
